---- MODULE Spec2Model ----
(***************************************************************************)
(* Model of the realtime middle tier (app/backend/rtmt.py) and of the tool *)
(* registration in app/backend/ragtools.py.                                *)
(*                                                                         *)
(* A websocket text frame is a record [fmt, msg]: msg is the JSON document *)
(* the frame's text parses to, fmt is what the text carries beyond the     *)
(* document (spacing, key order, escapes).  json.loads keeps msg and drops *)
(* fmt; json.dumps writes Python's own formatting, "dumps".                *)
(*                                                                         *)
(* Sends on a websocket are taken not to suspend; the one suspension point *)
(* inside a handler is the await of the tool's target (rtmt.py line 148).  *)
(***************************************************************************)
EXTENDS Integers, Sequences, FiniteSets, TLC

VARIABLES
    tools,            \* RTMiddleTier.tools: registered tool names, in insertion order
    system_message,   \* server-enforced configuration, None when not set
    temperature,
    max_tokens,
    disable_audio,
    voice_choice,
    key,              \* RTMiddleTier.key: the API key, None with a token provider
    tools_pending,    \* RTMiddleTier._tools_pending: call_id -> RTToolCall.previous_id
    conn,             \* conn[s]: "closed" | "open"  (one websocket handler run per slot)
    pump,             \* pump[s]: from_server_to_client: "recv" | "await_tool" | "ended"
    call,             \* call[s]: the dispatch suspended at the await of tool.target
    step,             \* the latest handler run: its input frame and what it sent
    log,              \* history: the receipts, forwards and handler ends of a connection
    request,          \* request[s]: ws.headers, the headers of the client's request
    headers,          \* headers[s]: the headers the upstream socket was opened with
    announced         \* history: announced[s], upstream of s has announced a function
                      \* call since the last response.done of s

config == <<tools, system_message, temperature, max_tokens, disable_audio, voice_choice, key>>
vars == <<tools, system_message, temperature, max_tokens, disable_audio, voice_choice, key,
          tools_pending, conn, pump, call, step, log, request, headers, announced>>

-----------------------------------------------------------------------------
(* Bounds of the model *)

MaxOutput == 4

(* the connections served at once by the one relay object *)
Sessions == {1, 2}

-----------------------------------------------------------------------------
(* Values *)

None == "None"
Fmts == {"wire"}
CallIds == {"c1", "c2"}
PrevIds == {"p0", "p1"}

(* json.loads(msg.data) and json.dumps(message) *)
json_loads(data) == data.msg
json_dumps(message) == [fmt |-> "dumps", msg |-> message]

(* A JSON object is a function on its keys; d[k] = v adds the key if missing *)
SetKey(d, k, v) == [x \in (DOMAIN d) \cup {k} |-> IF x = k THEN v ELSE d[x]]
HasKey(d, k) == k \in DOMAIN d

EmptyDict == [x \in {} |-> None]

(* list.pop(i) for 0 <= i < len(list); positions are Python's, from 0 *)
Pop(lst, i) == SubSeq(lst, 1, i) \o SubSeq(lst, i + 2, Len(lst))

-----------------------------------------------------------------------------
(* Tools: ragtools.py *)

ToolNames == {"search", "report_grounding"}

(* _search_tool_schema, _grounding_tool_schema *)
Schema(name) == [type |-> "function", name |-> name]

(* The registries a relay can serve with: none, attach_rag_tools as it is  *)
(* (only "search"), and attach_rag_tools with its commented-out            *)
(* registrations restored.                                                 *)
Registries == {<<>>, <<"search">>, <<"search", "report_grounding">>}
Registered(name) == \E i \in 1..Len(tools) : tools[i] = name

TO_SERVER == "TO_SERVER"
TO_CLIENT == "TO_CLIENT"

(* What a tool's target can return.  ToolResult.text is a str, None or a   *)
(* structured value: _MAIZE_search_tool returns a list of passages to the  *)
(* server, _search_tool a str to the server, _report_grounding_tool a dict *)
(* of sources to the client.                                               *)
ToolResults(name) ==
    IF name = "search"
    THEN {[text |-> [kind |-> "list", val |-> "passages"], destination |-> TO_SERVER],
          [text |-> [kind |-> "list", val |-> "no passages"], destination |-> TO_SERVER],
          [text |-> [kind |-> "str", val |-> "[doc1]: text"], destination |-> TO_SERVER]}
    ELSE {[text |-> [kind |-> "dict", val |-> "sources"], destination |-> TO_CLIENT]}

(* json.dumps of a tool's structured payload *)
DumpedPayload(text) ==
    IF text.kind = "list" THEN IF text.val = "passages" THEN "[\"passages\"]" ELSE "[]"
    ELSE "{\"sources\": []}"

(* ToolResult.to_text *)
to_text(result) ==
    IF result.text.kind = "none" THEN ""
    ELSE IF result.text.kind = "str" THEN result.text.val
    ELSE DumpedPayload(result.text)

-----------------------------------------------------------------------------
(* Messages of the realtime protocol *)

GoodArgs == "{\"query\": \"x\"}"
BadArgs == "{\"query\": "
ValidJson(text) == text # BadArgs

FunctionCall(c, n, a) == [type |-> "function_call", call_id |-> c, name |-> n, arguments |-> a]
FunctionCallOutput(c) == [type |-> "function_call_output", call_id |-> c, output |-> "out"]
MessageItem == [type |-> "message", id |-> "m1"]

IsFunctionCallItem(message) == HasKey(message, "item") /\ message.item.type = "function_call"

(* The session objects upstream announces in session.created *)
UpstreamSessions ==
    {[id |-> "sess", instructions |-> "upstream default", tools |-> <<>>, voice |-> "echo",
      tool_choice |-> "auto", max_response_output_tokens |-> "inf", modalities |-> "audio"],
     [id |-> "sess", instructions |-> "", tools |-> <<Schema("search")>>, voice |-> "alloy",
      tool_choice |-> "none", max_response_output_tokens |-> "4096", modalities |-> "text"],
     [id |-> "sess", modalities |-> "audio"]}

(* The session upstream echoes in session.updated once the relay's          *)
(* session.update has reached it: the values _process_message_to_server set *)
UpdatedSession ==
    [id |-> "sess", instructions |-> system_message,
     tools |-> [i \in 1..Len(tools) |-> Schema(tools[i])],
     tool_choice |-> IF Len(tools) > 0 THEN "auto" ELSE "none",
     max_response_output_tokens |-> max_tokens, voice |-> voice_choice,
     modalities |-> "audio"]

(* The output lists of a response.done: every list of up to MaxOutput items *)
OutputItems == {FunctionCall("c1", "search", GoodArgs), MessageItem}
OutputLists == UNION {[1..n -> OutputItems] : n \in 0..MaxOutput}
FewOutputLists == {<<>>, <<MessageItem>>, <<FunctionCall("c1", "search", GoodArgs)>>}

DoneItems ==
    {FunctionCall(c, n, GoodArgs) : c \in CallIds, n \in ToolNames \cup {"unknown"}}
    \cup {FunctionCall(c, "search", BadArgs) : c \in CallIds}

UpstreamMessages ==
    {[type |-> "session.created", session |-> ss] : ss \in UpstreamSessions}
    \cup {[type |-> "response.output_item.added", item |-> it] :
            it \in {FunctionCall("c1", "search", ""), MessageItem}}
    \cup {[type |-> "response.output_item.added"]}
    \cup {[type |-> "conversation.item.created", previous_item_id |-> p,
           item |-> FunctionCall(c, "search", "")] : p \in PrevIds, c \in CallIds}
    \cup {[type |-> "conversation.item.created", previous_item_id |-> "p0", item |-> it] :
            it \in {FunctionCallOutput("c1"), MessageItem}}
    \cup {[type |-> "response.function_call_arguments.delta", call_id |-> "c1"],
          [type |-> "response.function_call_arguments.done", call_id |-> "c1"]}
    \cup {[type |-> "response.output_item.done", item |-> it] : it \in DoneItems \cup {MessageItem}}
    \cup {[type |-> "response.done", response |-> [output |-> out]] : out \in FewOutputLists}
    \cup {[type |-> "response.done"], [type |-> "response.audio.delta"],
          [type |-> "session.updated", session |-> UpdatedSession]}

UpstreamFrames == {[fmt |-> f, msg |-> m] : f \in Fmts, m \in UpstreamMessages}

-----------------------------------------------------------------------------
(* RTMiddleTier._process_message_to_client *)

(* what a handler run hands back: the frame to forward (none or one), the  *)
(* tracker it leaves, the frames it sent upstream and to the client, the   *)
(* exception that ended it ("" for none), and the dispatch it suspended in *)
Handled(fwd, pending, to_server, to_client, raised) ==
    [updated_message |-> fwd, tools_pending |-> pending, server_sent |-> to_server,
     client_sent |-> to_client, raised |-> raised, suspended |-> FALSE]

(* RedactSession leaving the voice and the token limit as upstream sent them *)
RedactSession_Partial(message) ==
    LET s0 == message.session
        s1 == SetKey(s0, "instructions", "")
        s2 == SetKey(s1, "tools", <<>>)
        s4 == SetKey(s2, "tool_choice", "none")
    IN  SetKey(message, "session", s4)

(* case "session.created" *)
RedactSession(message) ==
    LET s0 == message.session
        s1 == SetKey(s0, "instructions", "")
        s2 == SetKey(s1, "tools", <<>>)
        s3 == SetKey(s2, "voice", voice_choice)
        s4 == SetKey(s3, "tool_choice", "none")
        s5 == SetKey(s4, "max_response_output_tokens", None)
    IN  SetKey(message, "session", s5)

(* Register writing the entry anew at every registration: last wins *)
Register_LastWins(pending, message) ==
    SetKey(pending, message.item.call_id, message.previous_item_id)

(* case "conversation.item.created", item type function_call *)
Register(pending, message) ==
    IF message.item.call_id \in DOMAIN pending THEN pending
    ELSE SetKey(pending, message.item.call_id, message.previous_item_id)

(* case "response.done": the loop over enumerate(reversed(output)), which  *)
(* pops position i, the count of the items visited so far, from the list   *)
(* it is iterating.  idx is the reverse iterator's index: it ends once idx *)
(* is outside the list as it is now.  list.pop raises IndexError when i is *)
(* not a position of the list.                                             *)
RECURSIVE StripLoop(_, _, _, _)
StripLoop(output, idx, i, replace) ==
    IF idx < 0 \/ idx >= Len(output)
    THEN [output |-> output, replace |-> replace, raised |-> ""]
    ELSE IF output[idx + 1].type = "function_call"
         THEN IF i >= Len(output)
              THEN [output |-> output, replace |-> replace, raised |-> "IndexError"]
              ELSE StripLoop(Pop(output, i), idx - 1, i + 1, TRUE)
         ELSE StripLoop(output, idx - 1, i + 1, replace)

StripFunctionCalls(output) == StripLoop(output, Len(output) - 1, 0, FALSE)

(* Continuation asking for the continuation without clearing the tracker *)
Continuation_NoClear(pending) ==
    IF DOMAIN pending # {}
    THEN [tools_pending |-> pending,
          server_sent |-> <<json_dumps([type |-> "response.create"])>>]
    ELSE [tools_pending |-> pending, server_sent |-> <<>>]

(* case "response.done", lines 170-174: with calls pending, forget them    *)
(* and ask upstream to continue the response                               *)
Continuation(pending) ==
    IF DOMAIN pending # {}
    THEN [tools_pending |-> EmptyDict,
          server_sent |-> <<json_dumps([type |-> "response.create"])>>]
    ELSE [tools_pending |-> pending, server_sent |-> <<>>]

(* Stripped writing the message anew whether or not it removed anything *)
Stripped_AlwaysDumps(data, message) ==
    IF ~HasKey(message, "response") THEN [updated_message |-> <<data>>, raised |-> ""]
    ELSE LET r == StripFunctionCalls(message.response.output)
             m == SetKey(message, "response", SetKey(message.response, "output", r.output))
         IN  IF r.raised # "" THEN [updated_message |-> <<>>, raised |-> r.raised]
             ELSE [updated_message |-> <<json_dumps(m)>>, raised |-> ""]

(* case "response.done", lines 175-182: the frame to forward *)
Stripped(data, message) ==
    IF ~HasKey(message, "response") THEN [updated_message |-> <<data>>, raised |-> ""]
    ELSE LET r == StripFunctionCalls(message.response.output)
             m == SetKey(message, "response", SetKey(message.response, "output", r.output))
         IN  IF r.raised # "" THEN [updated_message |-> <<>>, raised |-> r.raised]
             ELSE IF r.replace THEN [updated_message |-> <<json_dumps(m)>>, raised |-> ""]
             ELSE [updated_message |-> <<data>>, raised |-> ""]

(* case "response.done" *)
ResponseDone(data, message, pending) ==
    LET c == Continuation(pending)
        f == Stripped(data, message)
    IN  Handled(f.updated_message, c.tools_pending, c.server_sent, <<>>, f.raised)

(* case "response.output_item.done", item type function_call, up to the    *)
(* await of tool.target: the two lookups and the parse of the arguments    *)
DispatchBegin(message, pending) ==
    LET item == message.item
    IN  IF item.call_id \notin DOMAIN pending THEN Handled(<<>>, pending, <<>>, <<>>, "KeyError")
        ELSE IF ~Registered(item.name) THEN Handled(<<>>, pending, <<>>, <<>>, "KeyError")
        ELSE IF ~ValidJson(item.arguments)
             THEN Handled(<<>>, pending, <<>>, <<>>, "JSONDecodeError")
        ELSE [updated_message |-> <<>>, tools_pending |-> pending, server_sent |-> <<>>,
              client_sent |-> <<>>, raised |-> "", suspended |-> TRUE,
              tool_call |-> [tool_call_id |-> item.call_id, previous_id |-> pending[item.call_id]]]

(* DispatchEnd deleting the call from the tracker once its output is sent *)
DispatchEnd_Pops(item, tool_call, result, pending) ==
    LET out == [type |-> "conversation.item.create",
                item |-> [type |-> "function_call_output", call_id |-> item.call_id,
                          output |-> IF result.destination = TO_SERVER
                                     THEN to_text(result) ELSE ""]]
        ext == [type |-> "extension.middle_tier_tool_response",
                previous_item_id |-> tool_call.previous_id,
                tool_name |-> item.name, tool_result |-> to_text(result)]
    IN  Handled(<<>>, [c \in (DOMAIN pending) \ {item.call_id} |-> pending[c]],
                <<json_dumps(out)>>,
                IF result.destination = TO_CLIENT THEN <<json_dumps(ext)>> ELSE <<>>, "")

(* DispatchEnd sending the result's text to the server whatever its        *)
(* destination                                                             *)
DispatchEnd_TextToServer(item, tool_call, result, pending) ==
    LET out == [type |-> "conversation.item.create",
                item |-> [type |-> "function_call_output", call_id |-> item.call_id,
                          output |-> to_text(result)]]
        ext == [type |-> "extension.middle_tier_tool_response",
                previous_item_id |-> tool_call.previous_id,
                tool_name |-> item.name, tool_result |-> to_text(result)]
    IN  Handled(<<>>, pending, <<json_dumps(out)>>,
                IF result.destination = TO_CLIENT THEN <<json_dumps(ext)>> ELSE <<>>, "")

(* DispatchEnd sending the server no function_call_output *)
DispatchEnd_NoOutput(item, tool_call, result, pending) ==
    LET ext == [type |-> "extension.middle_tier_tool_response",
                previous_item_id |-> tool_call.previous_id,
                tool_name |-> item.name, tool_result |-> to_text(result)]
    IN  Handled(<<>>, pending, <<>>,
                IF result.destination = TO_CLIENT THEN <<json_dumps(ext)>> ELSE <<>>, "")

(* the same case from the return of tool.target on: the function_call_output *)
(* to the server and, for a TO_CLIENT result, the extension message          *)
DispatchEnd(item, tool_call, result, pending) ==
    LET out == [type |-> "conversation.item.create",
                item |-> [type |-> "function_call_output", call_id |-> item.call_id,
                          output |-> IF result.destination = TO_SERVER
                                     THEN to_text(result) ELSE ""]]
        ext == [type |-> "extension.middle_tier_tool_response",
                previous_item_id |-> tool_call.previous_id,
                tool_name |-> item.name, tool_result |-> to_text(result)]
    IN  Handled(<<>>, pending, <<json_dumps(out)>>,
                IF result.destination = TO_CLIENT THEN <<json_dumps(ext)>> ELSE <<>>, "")

(* OutputItemAdded suppressing the frame whatever the type of its item *)
OutputItemAdded_SuppressesAll(data, message, pending) ==
    Handled(<<>>, pending, <<>>, <<>>, "")

(* case "response.output_item.added" *)
OutputItemAdded(data, message, pending) ==
    IF IsFunctionCallItem(message) THEN Handled(<<>>, pending, <<>>, <<>>, "")
    ELSE Handled(<<data>>, pending, <<>>, <<>>, "")

(* ItemCreated without its elif: the acknowledgement of a function call's   *)
(* output goes to the client                                               *)
ItemCreated_NoElif(data, message, pending) ==
    IF IsFunctionCallItem(message)
    THEN Handled(<<>>, Register(pending, message), <<>>, <<>>, "")
    ELSE Handled(<<data>>, pending, <<>>, <<>>, "")

(* case "conversation.item.created" *)
ItemCreated(data, message, pending) ==
    IF IsFunctionCallItem(message)
    THEN Handled(<<>>, Register(pending, message), <<>>, <<>>, "")
    ELSE IF HasKey(message, "item") /\ message.item.type = "function_call_output"
    THEN Handled(<<>>, pending, <<>>, <<>>, "")
    ELSE Handled(<<data>>, pending, <<>>, <<>>, "")

process_message_to_client(data, pending) ==
    LET message == json_loads(data)
    IN  CASE message.type = "session.created" ->
               Handled(<<json_dumps(RedactSession(message))>>, pending, <<>>, <<>>, "")
          [] message.type = "response.output_item.added" ->
               OutputItemAdded(data, message, pending)
          [] message.type = "conversation.item.created" ->
               ItemCreated(data, message, pending)
          [] message.type = "response.function_call_arguments.delta" ->
               Handled(<<>>, pending, <<>>, <<>>, "")
          [] message.type = "response.function_call_arguments.done" ->
               Handled(<<>>, pending, <<>>, <<>>, "")
          [] message.type = "response.output_item.done" ->
               IF IsFunctionCallItem(message) THEN DispatchBegin(message, pending)
               ELSE Handled(<<data>>, pending, <<>>, <<>>, "")
          [] message.type = "response.done" -> ResponseDone(data, message, pending)
          [] OTHER -> Handled(<<data>>, pending, <<>>, <<>>, "")

-----------------------------------------------------------------------------
(* RTMiddleTier._process_message_to_server *)

(* Python's truth of a configured value: None, "" and False are false *)
Truthy(v) == v \notin {None, "", "False"}

(* EnforceSession testing the configured values for truth, not for None *)
EnforceSession_Truthy(session) ==
    LET s1 == IF Truthy(system_message)
              THEN SetKey(session, "instructions", system_message) ELSE session
        s2 == IF Truthy(temperature) THEN SetKey(s1, "temperature", temperature) ELSE s1
        s3 == IF Truthy(max_tokens)
              THEN SetKey(s2, "max_response_output_tokens", max_tokens) ELSE s2
        s4 == IF Truthy(disable_audio) THEN SetKey(s3, "disable_audio", disable_audio) ELSE s3
        s5 == IF Truthy(voice_choice) THEN SetKey(s4, "voice", voice_choice) ELSE s4
        s6 == SetKey(s5, "tool_choice", IF Len(tools) > 0 THEN "auto" ELSE "none")
    IN  SetKey(s6, "tools", [i \in 1..Len(tools) |-> Schema(tools[i])])

(* EnforceSession adding the registered tools to those the client sent *)
EnforceSession_ExtendsTools(session) ==
    LET s1 == IF system_message # None
              THEN SetKey(session, "instructions", system_message) ELSE session
        s2 == IF temperature # None THEN SetKey(s1, "temperature", temperature) ELSE s1
        s3 == IF max_tokens # None
              THEN SetKey(s2, "max_response_output_tokens", max_tokens) ELSE s2
        s4 == IF disable_audio # None THEN SetKey(s3, "disable_audio", disable_audio) ELSE s3
        s5 == IF voice_choice # None THEN SetKey(s4, "voice", voice_choice) ELSE s4
        s6 == SetKey(s5, "tool_choice", IF Len(tools) > 0 THEN "auto" ELSE "none")
    IN  SetKey(s6, "tools", (IF HasKey(session, "tools") THEN session.tools ELSE <<>>)
                            \o [i \in 1..Len(tools) |-> Schema(tools[i])])

(* the session object of a session.update with the server's values set *)
EnforceSession(session) ==
    LET s1 == IF system_message # None
              THEN SetKey(session, "instructions", system_message) ELSE session
        s2 == IF temperature # None THEN SetKey(s1, "temperature", temperature) ELSE s1
        s3 == IF max_tokens # None
              THEN SetKey(s2, "max_response_output_tokens", max_tokens) ELSE s2
        s4 == IF disable_audio # None THEN SetKey(s3, "disable_audio", disable_audio) ELSE s3
        s5 == IF voice_choice # None THEN SetKey(s4, "voice", voice_choice) ELSE s4
        s6 == SetKey(s5, "tool_choice", IF Len(tools) > 0 THEN "auto" ELSE "none")
    IN  SetKey(s6, "tools", [i \in 1..Len(tools) |-> Schema(tools[i])])

(* process_message_to_server writing every message anew *)
process_message_to_server_AlwaysDumps(data) ==
    LET message == json_loads(data)
    IN  IF message.type = "session.update"
        THEN json_dumps(SetKey(message, "session", EnforceSession(message.session)))
        ELSE json_dumps(message)

process_message_to_server(data) ==
    LET message == json_loads(data)
    IN  IF message.type = "session.update"
        THEN json_dumps(SetKey(message, "session", EnforceSession(message.session)))
        ELSE data

(* The session objects a client sends, each key with the client's own      *)
(* value: all the keys below, all but one, one alone, or none of those the *)
(* server sets                                                             *)
ClientSession ==
    [instructions |-> "client prompt", temperature |-> "0.9",
     max_response_output_tokens |-> "100000", disable_audio |-> "True", voice |-> "shimmer",
     tools |-> <<[type |-> "function", name |-> "x"]>>, tool_choice |-> "required",
     modalities |-> "text", turn_detection |-> "server_vad"]
EnforcedKeys == {"instructions", "temperature", "max_response_output_tokens",
                 "disable_audio", "voice"}
ToolKeys == {"tools", "tool_choice"}
ClientKeySets ==
    {{}, EnforcedKeys \cup ToolKeys}
    \cup {{k} : k \in EnforcedKeys \cup ToolKeys}
    \cup {(EnforcedKeys \cup ToolKeys) \ {k} : k \in EnforcedKeys \cup ToolKeys}
ClientSessions ==
    {[k \in K \cup {"modalities", "turn_detection"} |-> ClientSession[k]] : K \in ClientKeySets}

ClientMessages ==
    {[type |-> "session.update", event_id |-> "e1", session |-> ss] : ss \in ClientSessions}
    \cup {[type |-> "input_audio_buffer.append", audio |-> "AAAA"],
          [type |-> "response.create"],
          [type |-> "session.created", session |-> ClientSession]}
ClientFrames == {[fmt |-> f, msg |-> m] : f \in Fmts, m \in ClientMessages}

(* the client frames of the runs that are about the other direction *)
FewClientFrames ==
    {[fmt |-> f, msg |-> m] : f \in Fmts,
        m \in {[type |-> "session.update", event_id |-> "e1", session |-> ClientSession],
               [type |-> "input_audio_buffer.append", audio |-> "AAAA"]}}

-----------------------------------------------------------------------------
(* RTMiddleTier._forward_messages: the two pumps of each connection *)

NoFrame == [fmt |-> "", msg |-> [type |-> ""]]

(* a frame whose msg.type is not aiohttp.WSMsgType.TEXT: binary data *)
NonText == [fmt |-> "BINARY", msg |-> [type |-> ""]]
NoCall == [item |-> FunctionCall("", "", ""), tool_call |-> [tool_call_id |-> "", previous_id |-> ""]]

(* the record of a handler run: on connection s, pump p, at its end `at`   *)
(* ("handled", "skipped", "suspended", "resumed" or "raised"), for the     *)
(* input frame                                                             *)
(* data, with the frames written to the client's and the server's socket   *)
Ran(s, p, at, data, to_client, to_server, raised) ==
    [conn |-> s, pump |-> p, at |-> at, data |-> data, to_client |-> to_client,
     to_server |-> to_server, raised |-> raised]

(* The relay as create_app builds it (the "search" tool, the voice set),   *)
(* and with attach_rag_tools' commented-out registrations restored and the *)
(* constructor's default voice                                             *)
Relays ==
    {[tools |-> <<"search">>, voice_choice |-> "alloy"],
     [tools |-> <<"search", "report_grounding">>, voice_choice |-> None]}

Init ==
    /\ \E r \in Relays : tools = r.tools /\ voice_choice = r.voice_choice
    /\ system_message = "You are Stellantis-bot"
    /\ temperature = None
    /\ max_tokens = None
    /\ disable_audio = None
    /\ tools_pending = EmptyDict
    /\ conn = [s \in Sessions |-> "closed"]
    /\ pump = [s \in Sessions |-> "ended"]
    /\ call = [s \in Sessions |-> NoCall]
    /\ step = Ran(0, "", "init", NoFrame, <<>>, <<>>, "")
    /\ log = <<>>
    /\ key = "k1"
    /\ request = [s \in Sessions |-> EmptyDict]
    /\ headers = [s \in Sessions |-> EmptyDict]
    /\ announced = [s \in Sessions |-> FALSE]

(* _websocket_handler: a client connects and the upstream socket is opened *)
Connect(s) ==
    /\ conn[s] = "closed"
    /\ conn' = [conn EXCEPT ![s] = "open"]
    /\ pump' = [pump EXCEPT ![s] = "recv"]
    /\ call' = [call EXCEPT ![s] = NoCall]
    /\ step' = Ran(s, "", "connect", NoFrame, <<>>, <<>>, "")
    /\ UNCHANGED <<config, tools_pending>>

(* FromServerToClient taking the next frame while the handler of an        *)
(* earlier one still awaits its tool: each frame handled in a task of its  *)
(* own                                                                     *)
FromServerToClient_Spawned(s, frames) ==
    /\ conn[s] = "open"
    /\ pump[s] # "ended"
    /\ \E data \in frames :
        LET h == process_message_to_client(data, tools_pending)
        IN  /\ tools_pending' = h.tools_pending
            /\ IF h.raised # ""
               THEN /\ conn' = [conn EXCEPT ![s] = "closed"]
                    /\ pump' = [pump EXCEPT ![s] = "ended"]
                    /\ call' = call
                    /\ step' = Ran(s, "server_to_client", "raised", data,
                                   h.client_sent, h.server_sent, h.raised)
               ELSE IF h.suspended
               THEN /\ conn' = conn
                    /\ pump' = [pump EXCEPT ![s] = "await_tool"]
                    /\ call' = [call EXCEPT ![s] = [item |-> json_loads(data).item,
                                                    tool_call |-> h.tool_call]]
                    /\ step' = Ran(s, "server_to_client", "suspended", data, <<>>, <<>>, "")
               ELSE /\ conn' = conn
                    /\ pump' = pump
                    /\ call' = call
                    /\ step' = Ran(s, "server_to_client", "handled", data,
                                   h.client_sent \o h.updated_message, h.server_sent, "")
    /\ UNCHANGED config

(* from_server_to_client: one text frame from upstream, up to the end of   *)
(* its handler or to the await of the tool.  An exception leaves gather    *)
(* and the handler: both sockets are closed.                               *)
FromServerToClient(s, frames) ==
    /\ conn[s] = "open"
    /\ pump[s] = "recv"
    /\ \E data \in frames :
        LET h == process_message_to_client(data, tools_pending)
        IN  /\ tools_pending' = h.tools_pending
            /\ IF h.raised # ""
               THEN /\ conn' = [conn EXCEPT ![s] = "closed"]
                    /\ pump' = [pump EXCEPT ![s] = "ended"]
                    /\ call' = call
                    /\ step' = Ran(s, "server_to_client", "raised", data,
                                   h.client_sent, h.server_sent, h.raised)
               ELSE IF h.suspended
               THEN /\ conn' = conn
                    /\ pump' = [pump EXCEPT ![s] = "await_tool"]
                    /\ call' = [call EXCEPT ![s] = [item |-> json_loads(data).item,
                                                    tool_call |-> h.tool_call]]
                    /\ step' = Ran(s, "server_to_client", "suspended", data, <<>>, <<>>, "")
               ELSE /\ conn' = conn
                    /\ pump' = pump
                    /\ call' = call
                    /\ step' = Ran(s, "server_to_client", "handled", data,
                                   h.client_sent \o h.updated_message, h.server_sent, "")
    /\ UNCHANGED config

(* ServerNonText leaving the loop at a frame that is not text *)
ServerNonText_Ends(s) ==
    /\ conn[s] = "open"
    /\ pump[s] = "recv"
    /\ conn' = [conn EXCEPT ![s] = "server_gone"]
    /\ pump' = [pump EXCEPT ![s] = "ended"]
    /\ step' = Ran(s, "server_to_client", "skipped", NonText, <<>>, <<>>, "")
    /\ UNCHANGED <<config, tools_pending, call>>

(* from_server_to_client's else branch: a frame that is not text is        *)
(* printed, and the loop goes on                                           *)
ServerNonText(s) ==
    /\ conn[s] = "open"
    /\ pump[s] = "recv"
    /\ step' = Ran(s, "server_to_client", "skipped", NonText, <<>>, <<>>, "")
    /\ UNCHANGED <<config, tools_pending, conn, pump, call>>

(* tool.target returns: the rest of the dispatch.  With the upstream socket *)
(* closed meanwhile, send_json raises ConnectionResetError, which           *)
(* _forward_messages swallows.                                              *)
ToolReturn(s) ==
    /\ pump[s] = "await_tool"
    /\ \E result \in ToolResults(call[s].item.name) :
        LET h == DispatchEnd(call[s].item, call[s].tool_call, result, tools_pending)
            data == [fmt |-> "", msg |-> [type |-> "response.output_item.done",
                                          item |-> call[s].item]]
        IN  IF conn[s] = "open"
            THEN /\ conn' = conn
                 /\ pump' = [pump EXCEPT ![s] = "recv"]
                 /\ tools_pending' = h.tools_pending
                 /\ step' = Ran(s, "server_to_client", "resumed", data,
                                h.client_sent \o h.updated_message, h.server_sent, "")
            ELSE /\ conn' = [conn EXCEPT ![s] = "closed"]
                 /\ pump' = [pump EXCEPT ![s] = "ended"]
                 /\ tools_pending' = tools_pending
                 /\ step' = Ran(s, "server_to_client", "raised", data, <<>>, <<>>,
                                "ConnectionResetError")
    /\ call' = [call EXCEPT ![s] = NoCall]
    /\ UNCHANGED config

(* tool.target raises: nothing catches it before gather *)
ToolRaise(s) ==
    /\ pump[s] = "await_tool"
    /\ conn' = [conn EXCEPT ![s] = "closed"]
    /\ pump' = [pump EXCEPT ![s] = "ended"]
    /\ call' = [call EXCEPT ![s] = NoCall]
    /\ step' = Ran(s, "server_to_client", "raised",
                   [fmt |-> "", msg |-> [type |-> "response.output_item.done",
                                         item |-> call[s].item]],
                   <<>>, <<>>, "ToolError")
    /\ UNCHANGED <<config, tools_pending>>

(* FromClientToServer waiting for the dispatch of its connection to end:   *)
(* one task for the two directions                                         *)
FromClientToServer_Blocked(s, frames) ==
    /\ conn[s] \in {"open", "server_gone"}
    /\ pump[s] # "await_tool"
    /\ \E data \in frames :
        IF conn[s] = "open"
        THEN /\ conn' = conn
             /\ pump' = pump
             /\ step' = Ran(s, "client_to_server", "handled", data, <<>>,
                            <<process_message_to_server(data)>>, "")
        ELSE /\ conn' = [conn EXCEPT ![s] = "closed"]
             /\ pump' = [pump EXCEPT ![s] = "ended"]
             /\ step' = Ran(s, "client_to_server", "raised", data, <<>>, <<>>,
                            "ConnectionResetError")
    /\ UNCHANGED <<config, tools_pending, call>>

(* from_client_to_server: one text frame from the client.  With the        *)
(* upstream socket gone, send_str raises ConnectionResetError.             *)
FromClientToServer(s, frames) ==
    /\ conn[s] \in {"open", "server_gone"}
    /\ \E data \in frames :
        IF conn[s] = "open"
        THEN /\ conn' = conn
             /\ pump' = pump
             /\ step' = Ran(s, "client_to_server", "handled", data, <<>>,
                            <<process_message_to_server(data)>>, "")
        ELSE /\ conn' = [conn EXCEPT ![s] = "closed"]
             /\ pump' = [pump EXCEPT ![s] = "ended"]
             /\ step' = Ran(s, "client_to_server", "raised", data, <<>>, <<>>,
                            "ConnectionResetError")
    /\ UNCHANGED <<config, tools_pending, call>>

(* from_client_to_server's else branch: a frame that is not text is        *)
(* printed, and the loop goes on                                           *)
ClientNonText(s) ==
    /\ conn[s] \in {"open", "server_gone"}
    /\ step' = Ran(s, "client_to_server", "skipped", NonText, <<>>, <<>>, "")
    /\ UNCHANGED <<config, tools_pending, conn, pump, call>>

(* the client closes its socket: from_client_to_server leaves its loop and *)
(* closes the upstream socket, which ends a from_server_to_client that is  *)
(* waiting for a frame                                                     *)
ClientClose(s) ==
    /\ conn[s] \in {"open", "server_gone"}
    /\ IF pump[s] = "await_tool"
       THEN conn' = [conn EXCEPT ![s] = "client_gone"] /\ pump' = pump
       ELSE conn' = [conn EXCEPT ![s] = "closed"] /\ pump' = [pump EXCEPT ![s] = "ended"]
    /\ step' = Ran(s, "client_to_server", "close", NoFrame, <<>>, <<>>, "")
    /\ UNCHANGED <<config, tools_pending, call>>

(* upstream closes its socket: from_server_to_client leaves its loop, and  *)
(* gather goes on waiting for from_client_to_server                        *)
UpstreamClose(s) ==
    /\ conn[s] = "open"
    /\ conn' = [conn EXCEPT ![s] = "server_gone"]
    /\ pump' = IF pump[s] = "recv" THEN [pump EXCEPT ![s] = "ended"] ELSE pump
    /\ step' = Ran(s, "server_to_client", "close", NoFrame, <<>>, <<>>, "")
    /\ UNCHANGED <<config, tools_pending, call>>

(* the histories and the headers are kept only in the runs that are about  *)
(* them                                                                    *)
Unlogged == UNCHANGED <<log, request, headers, announced>>

Next ==
    \E s \in Sessions :
        \/ Connect(s) /\ Unlogged
        \/ FromServerToClient(s, UpstreamFrames) /\ Unlogged
        \/ ServerNonText(s) /\ Unlogged
        \/ ToolReturn(s) /\ Unlogged
        \/ ToolRaise(s) /\ Unlogged
        \/ FromClientToServer(s, FewClientFrames) /\ Unlogged
        \/ ClientNonText(s) /\ Unlogged
        \/ ClientClose(s) /\ Unlogged
        \/ UpstreamClose(s) /\ Unlogged

Spec == Init /\ [][Next]_vars

-----------------------------------------------------------------------------
(* One connection, its upstream sending function calls and response.done   *)
(* with every output list of up to MaxOutput items                         *)

DoneFrames ==
    {[fmt |-> f, msg |-> m] : f \in Fmts,
        m \in {[type |-> "conversation.item.created", previous_item_id |-> "p0",
                item |-> FunctionCall(c, "search", "")] : c \in CallIds}
              \cup {[type |-> "response.done"]}
              \cup {[type |-> "response.done", response |-> [output |-> out]] :
                        out \in OutputLists}}

NextDone ==
    \/ Connect(1) /\ Unlogged
    \/ FromServerToClient(1, DoneFrames) /\ Unlogged
    \/ ClientClose(1) /\ Unlogged

SpecDone == Init /\ [][NextDone]_vars

-----------------------------------------------------------------------------
(* One connection, its client sending every session.update, under every    *)
(* server configuration                                                    *)

InitOut ==
    /\ tools \in Registries
    /\ system_message \in {None, "", "You are Stellantis-bot"}
    /\ temperature \in {None, "0.2"}
    /\ max_tokens \in {None, "4096"}
    /\ disable_audio \in {None, "False", "True"}
    /\ voice_choice \in {None, "alloy"}
    /\ tools_pending = EmptyDict
    /\ conn = [s \in Sessions |-> "closed"]
    /\ pump = [s \in Sessions |-> "ended"]
    /\ call = [s \in Sessions |-> NoCall]
    /\ step = Ran(0, "", "init", NoFrame, <<>>, <<>>, "")
    /\ log = <<>>
    /\ key = "k1"
    /\ request = [s \in Sessions |-> EmptyDict]
    /\ headers = [s \in Sessions |-> EmptyDict]
    /\ announced = [s \in Sessions |-> FALSE]

NextOut ==
    \/ Connect(1) /\ Unlogged
    \/ FromClientToServer(1, ClientFrames) /\ Unlogged
    \/ ClientClose(1) /\ Unlogged

SpecOut == InitOut /\ [][NextOut]_vars

-----------------------------------------------------------------------------
(* One connection with the history of its two pumps: for the n-th frame a  *)
(* pump takes from its socket, "recv" when the pump takes it, "fwd" when   *)
(* the pump writes the handler's updated message to the other socket, and  *)
(* "done" when the pump is back at its loop (or has ended); and inside the *)
(* handler of an upstream frame, "await" when it awaits tool.target,       *)
(* "output" when it sends the function_call_output upstream and "create"   *)
(* when it sends response.create upstream                                  *)

MaxLog == 13

Event(p, n, ev) == [pump |-> p, n |-> n, ev |-> ev]

(* the frames pump p has taken so far *)
Received(l, p) == Cardinality({i \in 1..Len(l) : l[i].pump = p /\ l[i].ev = "recv"})

(* the frame pump p took last among those whose handler has not ended *)
InHandler(l, p) ==
    LET open == {n \in 1..Received(l, p) :
                    ~\E i \in 1..Len(l) : l[i] = Event(p, n, "done")}
    IN  CHOOSE n \in open : \A m \in open : m <= n

(* the run st is the rest of a dispatch, from the end of tool.target on *)
EndsDispatch(st) ==
    /\ st.pump = "server_to_client"
    /\ \/ st.at = "resumed"
       \/ st.at = "raised" /\ st.raised \in {"ToolError", "ConnectionResetError"}

(* the handler run st has written a message of that type upstream *)
SentUpstream(st, type) ==
    /\ st.pump = "server_to_client"
    /\ \E i \in 1..Len(st.to_server) : st.to_server[i].msg.type = type

(* the history after the step the action conjoined with this has taken *)
Logged ==
    LET p == step'.pump
        n == Received(log, p) + 1
        new_msg == IF p = "server_to_client" THEN step'.to_client ELSE step'.to_server
    IN  /\ log' = CASE step'.at = "connect" -> <<>>
                 [] step'.at = "close" -> log
                 [] step'.at = "suspended" ->
                        log \o <<Event(p, n, "recv"), Event(p, n, "await")>>
                 [] EndsDispatch(step') ->
                        log \o (IF SentUpstream(step', "conversation.item.create")
                                THEN <<Event(p, InHandler(log, p), "output")>> ELSE <<>>)
                            \o <<Event(p, InHandler(log, p), "done")>>
                 [] OTHER ->
                        log \o <<Event(p, n, "recv")>>
                            \o (IF SentUpstream(step', "response.create")
                                THEN <<Event(p, n, "create")>> ELSE <<>>)
                            \o (IF step'.at = "handled" /\ new_msg # <<>>
                                THEN <<Event(p, n, "fwd")>> ELSE <<>>)
                            \o <<Event(p, n, "done")>>
        /\ UNCHANGED <<request, headers, announced>>

OrderFrames ==
    {[fmt |-> f, msg |-> m] : f \in Fmts,
        m \in {[type |-> "conversation.item.created", previous_item_id |-> "p0",
                item |-> FunctionCall("c1", "search", "")],
               [type |-> "response.output_item.done",
                item |-> FunctionCall("c1", "search", GoodArgs)],
               [type |-> "response.function_call_arguments.delta", call_id |-> "c1"],
               [type |-> "response.audio.delta"],
               [type |-> "response.done"]}}

NextOrder ==
    \/ Connect(1) /\ Logged
    \/ Len(log) + 4 <= MaxLog /\ FromServerToClient(1, OrderFrames) /\ Logged
    \/ ToolReturn(1) /\ Logged
    \/ ToolRaise(1) /\ Logged
    \/ Len(log) + 4 <= MaxLog /\ FromClientToServer(1, FewClientFrames) /\ Logged
    \/ ClientClose(1) /\ Logged
    \/ UpstreamClose(1) /\ Logged

SpecOrder == Init /\ [][NextOrder]_vars

-----------------------------------------------------------------------------
(* Two connections opened with every request of Requests, under a relay    *)
(* with an API key and under one with a token provider                     *)

RequestId == "x-ms-client-request-id"

(* the headers of a client's websocket request *)
Browser == [x \in {"User-Agent"} |-> "browser"]
Requests == {Browser, SetKey(Browser, RequestId, "r1"), SetKey(Browser, RequestId, "r2")}

(* f"Bearer {self._token_provider()}" *)
BearerToken == "Bearer token"

(* _forward_messages, lines 222-229: headers starts empty and gets the     *)
(* request id of the client's request; the assignments that follow bind    *)
(* headers to a new dict with the authentication header alone              *)
UpstreamHeaders(ws_headers) ==
    LET h0 == EmptyDict
        h1 == IF HasKey(ws_headers, RequestId)
              THEN SetKey(h0, RequestId, ws_headers[RequestId]) ELSE h0
        h2 == IF key # None THEN [x \in {"api-key"} |-> key]
              ELSE [x \in {"Authorization"} |-> BearerToken]
    IN  h2

(* session.ws_connect with those headers, for the request the handler of   *)
(* connection s was called with                                            *)
Opened(s, requests) ==
    \E r \in requests :
        /\ request' = [request EXCEPT ![s] = r]
        /\ headers' = [headers EXCEPT ![s] = UpstreamHeaders(r)]

InitHeaders ==
    /\ \E r \in Relays : tools = r.tools /\ voice_choice = r.voice_choice
    /\ system_message = "You are Stellantis-bot"
    /\ temperature = None
    /\ max_tokens = None
    /\ disable_audio = None
    /\ key \in {None, "k1"}
    /\ tools_pending = EmptyDict
    /\ conn = [s \in Sessions |-> "closed"]
    /\ pump = [s \in Sessions |-> "ended"]
    /\ call = [s \in Sessions |-> NoCall]
    /\ step = Ran(0, "", "init", NoFrame, <<>>, <<>>, "")
    /\ log = <<>>
    /\ request = [s \in Sessions |-> EmptyDict]
    /\ headers = [s \in Sessions |-> EmptyDict]
    /\ announced = [s \in Sessions |-> FALSE]

NextHeaders ==
    \E s \in Sessions :
        \/ Connect(s) /\ Opened(s, Requests) /\ UNCHANGED <<log, announced>>
        \/ FromClientToServer(s, FewClientFrames) /\ Unlogged
        \/ ClientClose(s) /\ Unlogged
        \/ UpstreamClose(s) /\ Unlogged

SpecHeaders == InitHeaders /\ [][NextHeaders]_vars

-----------------------------------------------------------------------------
(* Two connections with, for each, the history of whether its upstream has *)
(* announced a function call since its last response.done                  *)

CallFrames ==
    {[fmt |-> f, msg |-> m] : f \in Fmts,
        m \in {[type |-> "conversation.item.created", previous_item_id |-> "p0",
                item |-> FunctionCall(c, "search", "")] : c \in CallIds}
              \cup {[type |-> "response.output_item.done",
                     item |-> FunctionCall("c1", "search", GoodArgs)],
                    [type |-> "response.audio.delta"],
                    [type |-> "response.done"],
                    [type |-> "response.done", response |-> [output |-> <<MessageItem>>]]}}

(* the history after the step the action conjoined with this has taken *)
Announced ==
    LET s == step'.conn
        m == step'.data.msg
        from_upstream == step'.pump = "server_to_client" /\ step'.data.fmt \in Fmts
    IN  /\ announced' =
                CASE step'.at = "connect" -> [announced EXCEPT ![s] = FALSE]
                  [] from_upstream /\ m.type = "response.done" ->
                        [announced EXCEPT ![s] = FALSE]
                  [] from_upstream /\ m.type = "conversation.item.created"
                                   /\ IsFunctionCallItem(m) ->
                        [announced EXCEPT ![s] = TRUE]
                  [] OTHER -> announced
        /\ UNCHANGED <<log, request, headers>>

NextCalls ==
    \E s \in Sessions :
        \/ Connect(s) /\ Announced
        \/ FromServerToClient(s, CallFrames) /\ Announced
        \/ ToolReturn(s) /\ Announced
        \/ ToolRaise(s) /\ Announced
        \/ ClientClose(s) /\ Announced

SpecCalls == Init /\ [][NextCalls]_vars

-----------------------------------------------------------------------------
(* Properties *)

(* the JSON object d has key k with value v *)
Has(d, k, v) == HasKey(d, k) /\ d[k] = v

(* the latest step is a run of the upstream-to-client handler that has ended *)
ServerRunEnded == step.pump = "server_to_client" /\ step.at \in {"handled", "resumed", "raised"}

(* a message about function calling, which the client is not to see *)
FunctionCallingMessage(m) ==
    \/ /\ m.type \in {"response.output_item.added", "response.output_item.done"}
       /\ IsFunctionCallItem(m)
    \/ /\ m.type = "conversation.item.created"
       /\ HasKey(m, "item")
       /\ m.item.type \in {"function_call", "function_call_output"}
    \/ m.type \in {"response.function_call_arguments.delta",
                   "response.function_call_arguments.done"}

IsFunctionCallOutput(frame, c) ==
    /\ frame.msg.type = "conversation.item.create"
    /\ frame.msg.item.type = "function_call_output"
    /\ frame.msg.item.call_id = c

Continuations(frames) == {i \in 1..Len(frames) : frames[i].msg.type = "response.create"}

(* C1: nothing written to the client's socket is a message about function  *)
(* calling: an output_item.added or output_item.done of a function_call, an *)
(* item.created of a function_call or function_call_output, or a           *)
(* function_call_arguments delta or done.                                  *)
C1_NoFunctionCallingToClient ==
    \A i \in 1..Len(step.to_client) : ~FunctionCallingMessage(step.to_client[i].msg)

C1_Witness ==
    /\ ServerRunEnded
    /\ step.raised = ""
    /\ step.data.msg.type = "conversation.item.created"
    /\ HasKey(step.data.msg, "item")
    /\ step.data.msg.item.type = "function_call_output"
    /\ step.to_client = <<>>

(* C2: once the handler of a response.output_item.done of a function_call  *)
(* has ended with the sockets still open, exactly one function_call_output *)
(* with the item's call_id has been sent upstream and the message has not  *)
(* been written to the client.                                             *)
C2_OneOutputPerDone ==
    ( /\ ServerRunEnded
      /\ step.data.msg.type = "response.output_item.done"
      /\ IsFunctionCallItem(step.data.msg)
      /\ step.raised # "ConnectionResetError" )
    => /\ Len(step.to_server) = 1
       /\ IsFunctionCallOutput(step.to_server[1], step.data.msg.item.call_id)
       /\ \A i \in 1..Len(step.to_client) : step.to_client[i].msg.type # "response.output_item.done"

(* C3, as claimed: after conversation.item.created (function_call, c) the  *)
(* tracker holds an entry for c, and after the dispatch of the             *)
(* response.output_item.done for c it holds none.                          *)
C3_RemovedAtDispatch ==
    /\ ( /\ ServerRunEnded
         /\ step.data.msg.type = "conversation.item.created"
         /\ IsFunctionCallItem(step.data.msg) )
       => step.data.msg.item.call_id \in DOMAIN tools_pending
    /\ ( /\ ServerRunEnded
         /\ step.at = "resumed" )
       => step.data.msg.item.call_id \notin DOMAIN tools_pending

(* C3, amended: after conversation.item.created (function_call, c) the     *)
(* tracker holds an entry for c; a dispatch, at its await and at its end,  *)
(* leaves the tracker as it is; and an entry leaves the tracker only in    *)
(* the handling of a response.done.                                        *)
C3_KeptUntilResponseDone ==
    [][ /\ ( /\ step'.pump = "server_to_client"
             /\ step'.at = "handled"
             /\ step'.data.msg.type = "conversation.item.created"
             /\ IsFunctionCallItem(step'.data.msg) )
           => step'.data.msg.item.call_id \in DOMAIN tools_pending'
        /\ step'.at \in {"suspended", "resumed"} => tools_pending' = tools_pending
        /\ \A c \in DOMAIN tools_pending :
              c \notin DOMAIN tools_pending'
              => step'.pump = "server_to_client" /\ step'.data.msg.type = "response.done"
      ]_vars

C3_Witness ==
    /\ ServerRunEnded
    /\ step.at = "resumed"
    /\ Len(step.to_server) = 1
    /\ step.data.msg.item.call_id \in DOMAIN tools_pending

(* C4: the handling of a response.done that finds the tracker non-empty    *)
(* leaves it empty and sends exactly one response.create upstream.         *)
C4_ClearedAndContinued ==
    [][ ( /\ step'.pump = "server_to_client"
          /\ step'.at \in {"handled", "raised"}
          /\ step'.data.msg.type = "response.done"
          /\ DOMAIN tools_pending # {} )
        => /\ DOMAIN tools_pending' = {}
           /\ Cardinality(Continuations(step'.to_server)) = 1
           /\ Len(step'.to_server) = 1
      ]_vars

C4_Witness ==
    /\ ServerRunEnded
    /\ step.data.msg.type = "response.done"
    /\ Cardinality(Continuations(step.to_server)) = 1
    /\ DOMAIN tools_pending = {}

(* C10: the copy of a session.created written to the client has            *)
(* instructions "", tools [], tool_choice "none",                          *)
(* max_response_output_tokens null and the configured voice, whatever      *)
(* upstream sent.                                                          *)
C10_SessionCreatedRedacted ==
    (ServerRunEnded /\ step.data.msg.type = "session.created")
    => /\ step.raised = ""
       /\ Len(step.to_client) = 1
       /\ step.to_client[1].msg.type = "session.created"
       /\ LET session == step.to_client[1].msg.session
          IN  /\ Has(session, "instructions", "")
              /\ Has(session, "tools", <<>>)
              /\ Has(session, "tool_choice", "none")
              /\ Has(session, "max_response_output_tokens", None)
              /\ Has(session, "voice", voice_choice)

C10_Witness ==
    /\ ServerRunEnded
    /\ step.data.msg.type = "session.created"
    /\ HasKey(step.data.msg.session, "voice")
    /\ step.data.msg.session.voice # voice_choice
    /\ step.data.msg.session.tools # <<>>
    /\ step.data.msg.session.max_response_output_tokens # None
    /\ Len(step.to_client) = 1
    /\ step.to_client[1].msg.session.voice = voice_choice

NotFunctionCall(item) == item.type # "function_call"

(* the latest step is the handling of a response.done that has a response *)
ResponseDoneRun ==
    /\ ServerRunEnded
    /\ step.data.msg.type = "response.done"
    /\ HasKey(step.data.msg, "response")

(* C5: a response.done is handled without a fault, and the copy written to *)
(* the client has the original output list without its function_call       *)
(* entries, the other entries in their order.                              *)
C5_OutputFiltered ==
    ResponseDoneRun
    => /\ step.raised = ""
       /\ Len(step.to_client) = 1
       /\ step.to_client[1].msg.type = "response.done"
       /\ step.to_client[1].msg.response.output
            = SelectSeq(step.data.msg.response.output, NotFunctionCall)

(* C6: a response.done whose output list has no function_call entry is     *)
(* written to the client as the frame that came in, with or without a      *)
(* continuation sent upstream.                                             *)
C6_NoFunctionCallVerbatim ==
    ( /\ ResponseDoneRun
      /\ \A i \in 1..Len(step.data.msg.response.output) :
            NotFunctionCall(step.data.msg.response.output[i]) )
    => /\ step.raised = ""
       /\ step.to_client = <<step.data>>

C6_Witness ==
    /\ ResponseDoneRun
    /\ Len(step.data.msg.response.output) = 2
    /\ \A i \in 1..2 : NotFunctionCall(step.data.msg.response.output[i])
    /\ Continuations(step.to_server) # {}
    /\ step.to_client = <<step.data>>

(* the server's value for an enforced key of the session object *)
ServerValue(k) ==
    CASE k = "instructions" -> system_message
      [] k = "temperature" -> temperature
      [] k = "max_response_output_tokens" -> max_tokens
      [] k = "disable_audio" -> disable_audio
      [] k = "voice" -> voice_choice

(* the latest step is the forwarding of a client's session.update *)
SessionUpdateRun ==
    /\ step.pump = "client_to_server"
    /\ step.at = "handled"
    /\ step.data.msg.type = "session.update"
    /\ Len(step.to_server) = 1
    /\ step.to_server[1].msg.type = "session.update"

(* the JSON objects c and f agree on key k: both lack it or both have it   *)
(* with the same value                                                     *)
SameAt(c, f, k) == (HasKey(c, k) <=> HasKey(f, k)) /\ (HasKey(c, k) => f[k] = c[k])

(* C7: in the session.update sent upstream every enforced key the server   *)
(* has a value for carries that value, and every enforced key the server   *)
(* has no value for is as the client sent it.                              *)
C7_EnforcedFieldsOverwritten ==
    (step.pump = "client_to_server" /\ step.at = "handled"
        /\ step.data.msg.type = "session.update")
    => /\ SessionUpdateRun
       /\ \A k \in EnforcedKeys :
            IF ServerValue(k) # None
            THEN Has(step.to_server[1].msg.session, k, ServerValue(k))
            ELSE SameAt(step.data.msg.session, step.to_server[1].msg.session, k)

C7_Witness ==
    /\ SessionUpdateRun
    /\ Has(step.data.msg.session, "temperature", "0.9")
    /\ Has(step.to_server[1].msg.session, "temperature", "0.2")
    /\ disable_audio = "False"
    /\ Has(step.data.msg.session, "disable_audio", "True")
    /\ Has(step.to_server[1].msg.session, "disable_audio", "False")
    /\ system_message = None
    /\ Has(step.to_server[1].msg.session, "instructions", "client prompt")

(* C8: in the session.update sent upstream tools is the list of the        *)
(* schemas of the registered tools, and tool_choice is "auto" with a tool  *)
(* registered and "none" with none.                                        *)
C8_ToolsReplaced ==
    (step.pump = "client_to_server" /\ step.at = "handled"
        /\ step.data.msg.type = "session.update")
    => /\ SessionUpdateRun
       /\ Has(step.to_server[1].msg.session, "tools",
              [i \in 1..Len(tools) |-> Schema(tools[i])])
       /\ Has(step.to_server[1].msg.session, "tool_choice",
              IF Len(tools) >= 1 THEN "auto" ELSE "none")

C8_Witness ==
    /\ SessionUpdateRun
    /\ HasKey(step.data.msg.session, "tools")
    /\ Len(step.data.msg.session.tools) = 1
    /\ Has(step.data.msg.session, "tool_choice", "required")
    /\ tools = <<"search">>
    /\ step.to_server[1].msg.session.tools = <<Schema("search")>>
    /\ step.to_server[1].msg.session.tool_choice = "auto"

(* C9: a session.update is sent upstream with every key other than the     *)
(* enforced ones, tools and tool_choice as the client sent it, and any     *)
(* other client message is sent upstream as the frame that came in.        *)
C9_NothingElseChanged ==
    (step.pump = "client_to_server" /\ step.at = "handled")
    => /\ Len(step.to_server) = 1
       /\ IF step.data.msg.type = "session.update"
          THEN /\ DOMAIN step.to_server[1].msg = DOMAIN step.data.msg
               /\ \A k \in (DOMAIN step.data.msg) \ {"session"} :
                     step.to_server[1].msg[k] = step.data.msg[k]
               /\ \A k \in (DOMAIN step.data.msg.session
                            \cup DOMAIN step.to_server[1].msg.session)
                           \ (EnforcedKeys \cup ToolKeys) :
                     SameAt(step.data.msg.session, step.to_server[1].msg.session, k)
          ELSE step.to_server = <<step.data>>

C9_Witness ==
    /\ step.pump = "client_to_server"
    /\ step.at = "handled"
    /\ step.data.msg.type = "input_audio_buffer.append"
    /\ step.data.fmt = "wire"
    /\ step.to_server = <<step.data>>
    /\ system_message # None

-----------------------------------------------------------------------------
(* the frame is the extension message of tool tool_name, with the result   *)
(* text and the previous item id                                           *)
IsToolResponse(frame, previous_id, tool_name, text) ==
    /\ frame.msg.type = "extension.middle_tier_tool_response"
    /\ Has(frame.msg, "previous_item_id", previous_id)
    /\ Has(frame.msg, "tool_name", tool_name)
    /\ Has(frame.msg, "tool_result", text)

(* the dispatch suspended on connection s ends with result: what it writes *)
RoutedAs(s, result) ==
    /\ Len(step'.to_server) = 1
    /\ IsFunctionCallOutput(step'.to_server[1], call[s].item.call_id)
    /\ step'.to_server[1].msg.item.output =
            IF result.destination = TO_SERVER THEN to_text(result) ELSE ""
    /\ IF result.destination = TO_CLIENT
       THEN /\ Len(step'.to_client) = 1
            /\ IsToolResponse(step'.to_client[1], call[s].tool_call.previous_id,
                              call[s].item.name, to_text(result))
       ELSE step'.to_client = <<>>

(* C11: when a dispatch ends, the function_call_output sent upstream       *)
(* carries the result's text for a TO_SERVER result and the empty string   *)
(* for a TO_CLIENT one; the extension.middle_tier_tool_response message,   *)
(* with the previous item id recorded for the pending call, the tool's     *)
(* name and the result's text, goes to the client exactly for a TO_CLIENT  *)
(* result; and every other frame the client gets is the forward of the     *)
(* frame upstream sent, of the same type.                                  *)
C11_ToolResultRouted ==
    [][/\ step'.at = "resumed" =>
            \E result \in ToolResults(call[step'.conn].item.name) :
                RoutedAs(step'.conn, result)
       /\ step'.at = "suspended" =>
            call'[step'.conn].tool_call.previous_id
                = tools_pending[step'.data.msg.item.call_id]
       /\ step'.at # "resumed" =>
            \A i \in 1..Len(step'.to_client) :
                step'.to_client[i].msg.type = step'.data.msg.type]_vars

C11_Witness ==
    /\ step.at = "resumed"
    /\ Len(step.to_client) = 1
    /\ IsToolResponse(step.to_client[1], "p1", "report_grounding", "{\"sources\": []}")
    /\ step.to_server[1].msg.item.output = ""

-----------------------------------------------------------------------------
(* C12: the tracker a connection reads and writes is its own: a step of    *)
(* one connection (an item.created, an output_item.done or a response.done *)
(* it handles) leaves the tracker of every other open connection as it     *)
(* was, adding, replacing and removing none of its entries.  The relay     *)
(* keeps one _tools_pending for all its connections, so the tracker of     *)
(* connection t is tools_pending whatever t is.                            *)
C12_TrackerOwnedBySession ==
    [][\A t \in Sessions :
            (conn[t] # "closed" /\ step'.conn # t) => tools_pending' = tools_pending]_vars

-----------------------------------------------------------------------------
Pumps == {"server_to_client", "client_to_server"}

(* the events of pump p in the history, in their order *)
EventsOf(p) == SelectSeq(log, LAMBDA e : e.pump = p)

(* a pump takes a frame only once the handlers of the frames it took       *)
(* before have ended, and takes them in their order of arrival             *)
OneAtATime(L) ==
    \A i \in 1..Len(L) : L[i].ev = "recv" =>
        \A j \in 1..(i - 1) : L[j].ev = "recv" =>
            /\ L[j].n < L[i].n
            /\ \E k \in (j + 1)..(i - 1) : L[k] = Event(L[j].pump, L[j].n, "done")

(* a frame is forwarded inside its own handler, and the forwards follow    *)
(* the order of arrival                                                    *)
ForwardedInOrder(L) ==
    \A i \in 1..Len(L) : L[i].ev = "fwd" =>
        /\ \E j \in 1..(i - 1) : L[j] = Event(L[i].pump, L[i].n, "recv")
        /\ \A j \in 1..(i - 1) : L[j] # Event(L[i].pump, L[i].n, "done")
        /\ \A j \in 1..(i - 1) : L[j].ev = "fwd" => L[j].n < L[i].n

(* C13: in each direction of a connection the frames are handled one at a  *)
(* time in the order received, and those not suppressed are forwarded in   *)
(* that order, also when a handler awaits a tool.                          *)
C13_InReceiveOrder ==
    \A p \in Pumps : OneAtATime(EventsOf(p)) /\ ForwardedInOrder(EventsOf(p))

(* a dispatch awaited its tool while the client's pump forwarded a frame,  *)
(* and a later upstream frame was forwarded after the dispatch had ended   *)
C13_Witness ==
    \E i, j, k, l \in 1..Len(log) :
        /\ i < j /\ j < k /\ k < l
        /\ log[i].pump = "server_to_client" /\ log[i].ev = "recv"
        /\ log[j].pump = "client_to_server" /\ log[j].ev = "fwd"
        /\ log[k] = Event("server_to_client", log[i].n, "done")
        /\ log[l].pump = "server_to_client" /\ log[l].ev = "fwd" /\ log[l].n > log[i].n

-----------------------------------------------------------------------------
(* C14: while a connection awaits a tool, its upstream-to-client pump      *)
(* takes no further frame: the only thing that pump does is end the        *)
(* dispatch (or see its socket close); and its client-to-upstream pump can *)
(* take and forward a frame at every such moment, before the               *)
(* function_call_output is sent.                                           *)
C14_DispatchBlocksOnlyUpstream ==
    /\ [][\A s \in Sessions :
            (pump[s] = "await_tool" /\ step'.conn = s /\ step'.pump = "server_to_client")
                => (EndsDispatch(step') \/ step'.at = "close")]_vars
    /\ [](\A s \in Sessions :
            (pump[s] = "await_tool" /\ conn[s] = "open")
                => ENABLED FromClientToServer(s, FewClientFrames))

(* a client frame forwarded upstream while the dispatch of its connection  *)
(* awaits the tool                                                         *)
C14_Witness ==
    /\ step.pump = "client_to_server"
    /\ step.at = "handled"
    /\ pump[step.conn] = "await_tool"
    /\ Len(step.to_server) = 1
    /\ step.to_server[1].msg.type = "input_audio_buffer.append"

-----------------------------------------------------------------------------
(* the sockets of connection s that are open *)
ClientSocketOpen(s) == conn[s] \in {"open", "server_gone"}
UpstreamSocketOpen(s) == conn[s] = "open"

(* C15: a pump that has ended because its socket closed leaves the other   *)
(* socket of the connection closed too: once from_server_to_client has     *)
(* ended no socket of the connection is open, and once the client's socket *)
(* is closed the upstream one is.                                          *)
C15_CounterpartClosed ==
    \A s \in Sessions :
        /\ pump[s] = "ended" => ~ClientSocketOpen(s) /\ ~UpstreamSocketOpen(s)
        /\ ~ClientSocketOpen(s) => ~UpstreamSocketOpen(s)

-----------------------------------------------------------------------------
(* the latest run sent upstream one function_call_output for the call of   *)
(* its input frame, sent the client nothing, and left the connection and   *)
(* its pump running                                                        *)
AnsweredAndRunning ==
    /\ Len(step.to_server) = 1
    /\ IsFunctionCallOutput(step.to_server[1], step.data.msg.item.call_id)
    /\ step.to_client = <<>>
    /\ conn[step.conn] = "open"
    /\ pump[step.conn] = "recv"

(* C16: a tool's target that raises does not end the pump: the dispatch    *)
(* still sends the function_call_output upstream, with an error text, and  *)
(* tells the client nothing.                                               *)
C16_ToolFailureCaught ==
    (step.pump = "server_to_client" /\ step.raised = "ToolError") => AnsweredAndRunning

(* C17: a function_call output_item.done whose call id is not in the       *)
(* tracker, or whose tool name is not registered, does not end the pump:   *)
(* an error-shaped function_call_output is sent upstream.                  *)
C17_UnknownCallAnswered ==
    (step.pump = "server_to_client" /\ step.raised = "KeyError") => AnsweredAndRunning

-----------------------------------------------------------------------------
(* the frame carries a session object with the server's system message,    *)
(* the schema of a registered tool or the server's token limit             *)
CarriesPolicy(frame) ==
    /\ HasKey(frame.msg, "session")
    /\ \/ system_message # None /\ Has(frame.msg.session, "instructions", system_message)
       \/ max_tokens # None
            /\ Has(frame.msg.session, "max_response_output_tokens", max_tokens)
       \/ /\ HasKey(frame.msg.session, "tools")
          /\ \E i \in 1..Len(frame.msg.session.tools) :
                /\ frame.msg.session.tools[i].name \in ToolNames
                /\ Registered(frame.msg.session.tools[i].name)

(* C18: whatever upstream sends, no frame written to the client carries    *)
(* the server's system instructions, the schemas of its registered tools   *)
(* or its output token limit.                                              *)
C18_PolicyNotObservable ==
    \A i \in 1..Len(step.to_client) : ~CarriesPolicy(step.to_client[i])

-----------------------------------------------------------------------------
(* the message matches no case of _process_message_to_client *)
Unlisted(m) ==
    /\ m.type \notin {"session.created", "response.function_call_arguments.delta",
                      "response.function_call_arguments.done", "response.done"}
    /\ ~(/\ m.type \in {"response.output_item.added", "conversation.item.created",
                        "response.output_item.done"}
         /\ IsFunctionCallItem(m))
    /\ ~(/\ m.type = "conversation.item.created"
         /\ HasKey(m, "item")
         /\ m.item.type = "function_call_output")

(* C19: an upstream frame that matches no case of the inbound policy (an   *)
(* unknown type; an output_item.added, item.created or output_item.done    *)
(* whose item is not a function call) is written to the client as the      *)
(* frame received, nothing is sent upstream, no tool is dispatched and the *)
(* tracker stays as it was.                                                *)
C19_UnlistedVerbatim ==
    [][(/\ step'.pump = "server_to_client"
        /\ step'.at \notin {"close", "skipped"}
        /\ Unlisted(step'.data.msg))
            => /\ step'.at = "handled"
               /\ step'.to_client = <<step'.data>>
               /\ step'.to_server = <<>>
               /\ tools_pending' = tools_pending
               /\ pump' = pump
               /\ call' = call]_vars

C19_Witness ==
    /\ step.at = "handled"
    /\ step.data.msg.type = "response.output_item.added"
    /\ HasKey(step.data.msg, "item")
    /\ step.data.msg.item.type = "message"
    /\ step.to_client = <<step.data>>
    /\ tools_pending # EmptyDict

-----------------------------------------------------------------------------
(* C20: a frame that is not text, from either socket, is forwarded to no   *)
(* socket and changes nothing in the relay: not the tracker, not the       *)
(* connection, not its pumps; the pump that took it takes the text frames  *)
(* that follow.                                                            *)
C20_NonTextSkipped ==
    /\ [][step'.at = "skipped" =>
            /\ step'.to_client = <<>>
            /\ step'.to_server = <<>>
            /\ UNCHANGED <<config, tools_pending, conn, pump, call>>]_vars
    /\ [](step.at = "skipped" =>
            IF step.pump = "server_to_client"
            THEN ENABLED FromServerToClient(step.conn, UpstreamFrames)
            ELSE ENABLED FromClientToServer(step.conn, FewClientFrames))

(* binary frames skipped on a connection with a call pending, from         *)
(* upstream and from the client                                            *)
C20_Witness ==
    /\ step.at = "skipped"
    /\ step.pump = "server_to_client"
    /\ step.data = NonText
    /\ tools_pending # EmptyDict
    /\ conn[step.conn] = "open"
    /\ pump[step.conn] = "recv"

-----------------------------------------------------------------------------
(* C21: the upstream socket of a connection whose client sent an           *)
(* x-ms-client-request-id header is opened with headers that carry that    *)
(* value and the authentication header: api-key with a key, Authorization  *)
(* with a bearer token.                                                    *)
C21_RequestIdPropagated ==
    \A s \in Sessions :
        (conn[s] # "closed" /\ HasKey(request[s], RequestId)) =>
            /\ Has(headers[s], RequestId, request[s][RequestId])
            /\ IF key # None THEN Has(headers[s], "api-key", key)
               ELSE Has(headers[s], "Authorization", BearerToken)

-----------------------------------------------------------------------------
(* C22: the relay sends the response.create continuation upstream of a     *)
(* connection only if the upstream of that connection has announced a      *)
(* function call (conversation.item.created, item type function_call)      *)
(* since the connection's previous response.done: a response.done with no  *)
(* call announced before it sends none, whatever the other connections of  *)
(* the relay do.                                                           *)
C22_ContinuationOnlyAfterOwnCall ==
    [][(step'.pump = "server_to_client" /\ Continuations(step'.to_server) # {})
            => announced[step'.conn]]_vars

-----------------------------------------------------------------------------
(* C23: on a connection, when the relay sends response.create at a         *)
(* response.done, every dispatch begun before it has sent its              *)
(* function_call_output upstream and has ended: no response.create goes    *)
(* out while a dispatch of the connection awaits its tool.                 *)
C23_OutputBeforeContinuation ==
    \A k \in 1..Len(log) : log[k].ev = "create" =>
        \A i \in 1..(k - 1) : log[i].ev = "await" =>
            /\ \E j \in (i + 1)..(k - 1) : log[j] = Event(log[i].pump, log[i].n, "output")
            /\ \E j \in (i + 1)..(k - 1) : log[j] = Event(log[i].pump, log[i].n, "done")

(* a dispatch, its function_call_output while the client's pump had        *)
(* forwarded a frame, and then the continuation of the response            *)
C23_Witness ==
    \E i, j, k \in 1..Len(log) :
        /\ i < j /\ j < k
        /\ log[i].ev = "await"
        /\ log[j] = Event("server_to_client", log[i].n, "output")
        /\ log[k].ev = "create"
        /\ \E c \in (i + 1)..(j - 1) : log[c].pump = "client_to_server" /\ log[c].ev = "fwd"

-----------------------------------------------------------------------------
(* the message registers a pending call *)
Registration(m) == m.type = "conversation.item.created" /\ IsFunctionCallItem(m)

(* C24: registration is first-wins for a call id.  A                       *)
(* conversation.item.created (function_call) whose call_id is in the       *)
(* tracker leaves the tracker as it is; one whose call_id is not adds the  *)
(* entry with its previous_item_id and changes no other; an entry keeps    *)
(* its previous_item_id for as long as it is in the tracker; and the       *)
(* previous_item_id of an extension.middle_tier_tool_response is the one   *)
(* the dispatch read from the tracker for its call_id, hence that of the   *)
(* first registration of the entry it found there.                         *)
C24_FirstRegistrationWins ==
    [][LET s == step'.conn
           m == step'.data.msg
       IN  /\ (step'.pump = "server_to_client" /\ step'.at = "handled" /\ Registration(m)) =>
                IF m.item.call_id \in DOMAIN tools_pending
                THEN tools_pending' = tools_pending
                ELSE /\ DOMAIN tools_pending' = DOMAIN tools_pending \cup {m.item.call_id}
                     /\ tools_pending'[m.item.call_id] = m.previous_item_id
           /\ \A c \in DOMAIN tools_pending \cap DOMAIN tools_pending' :
                tools_pending'[c] = tools_pending[c]
           /\ step'.at = "suspended" =>
                call'[s].tool_call.previous_id = tools_pending[m.item.call_id]
           /\ (step'.at = "resumed" /\ step'.to_client # <<>>) =>
                Has(step'.to_client[1].msg, "previous_item_id",
                    call[s].tool_call.previous_id)]_vars

(* a second registration of c1, with another previous item id, has left    *)
(* the entry of the first                                                  *)
C24_Witness ==
    /\ step.pump = "server_to_client"
    /\ step.at = "handled"
    /\ Registration(step.data.msg)
    /\ step.data.msg.item.call_id = "c1"
    /\ step.data.msg.previous_item_id = "p1"
    /\ Has(tools_pending, "c1", "p0")

====
